---- MODULE Spec2Model ----
(***************************************************************************)
(* GuardianDrive dashboard (React front end over mock data).               *)
(*                                                                         *)
(* Units.  Money is kept in hundredths (987.40 -> 98740), percentages in   *)
(* tenths (65.3 -> 653), confidences and strategy scores in hundredths     *)
(* (0.95 -> 95), byte sizes in MiB (4194304000 B -> 4000): every literal   *)
(* of the mock data is exact in these units.                               *)
(*                                                                         *)
(* mock_data.json (drives, alerts, cost projections) is imported by the    *)
(* app but is not part of the sources: the drive list and the alert list   *)
(* are inputs, drawn in Init from bounded sets.                            *)
(***************************************************************************)
EXTENDS Integers, Sequences, FiniteSets

VARIABLES
    isLoading,          \* App: useState(true)
    activeTab,          \* App: useState('overview')
    isMobileMenuOpen,   \* Navigation: useState(false)
    selectedDrive,      \* DrivesTab: useState<Drive | null>(null), 0 is null
    dashboardSummary,   \* mockDashboardSummary
    tieringPlan,        \* mockTieringPlan
    compressionData,    \* mockCompressionData
    cloudOptions,       \* mockCloudOptions
    drives,             \* mockData.drives
    alerts,             \* mockData.alerts (= mockDashboardSummary.alerts.items)
    costProjections,    \* mockData.cost_projections (= ...cost_summary)
    boundary,           \* ErrorBoundary: this.state
    planRun,            \* the planning run of the decision engine
    ackCallers,         \* the acknowledgments in flight, one per caller
    mounted,            \* App is mounted
    timer               \* App: the setTimeout of the effect

uiVars   == <<isLoading, activeTab, isMobileMenuOpen, selectedDrive>>
dataVars == <<dashboardSummary, tieringPlan, compressionData, cloudOptions, drives,
              costProjections>>
engineVars == <<planRun, ackCallers>>
mountVars == <<mounted, timer>>
vars     == <<isLoading, activeTab, isMobileMenuOpen, selectedDrive,
              dashboardSummary, tieringPlan, compressionData, cloudOptions,
              drives, alerts, costProjections, boundary, planRun, ackCallers,
              mounted, timer>>

(***************************************************************************)
(* Bounds of the inputs.                                                   *)
(***************************************************************************)
NumDrives == 2
MaxAlerts == 2
NumFiles == 3
MaxListLen == 4

\* health_score is a percentage: HealthGauge draws score / 100 of the circle.
MaxScore == 100

Range(s) == {s[i] : i \in DOMAIN s}

(***************************************************************************)
(* Types (types/index.ts).                                                 *)
(***************************************************************************)
RiskLevels == <<"LOW", "MEDIUM", "HIGH", "CRITICAL">>

Severities == {"critical", "high", "medium", "low"}

Tiers == <<"HOT", "WARM", "COLD", "ARCHIVE">>

(***************************************************************************)
(* Mock API responses (App.tsx).                                           *)
(***************************************************************************)
mockDashboardSummary ==
    [ storage_summary |->
        [ total_capacity_gb |-> 28672, total_used_gb |-> 24015,
          utilization_percent |-> 837, total_files |-> 55 ],
      health_summary |->
        [ average_health_score |-> 626, critical_drives |-> 1,
          high_risk_drives |-> 1, healthy_drives |-> 3 ],
      alerts |-> [ total |-> 3, critical |-> 1, high |-> 1 ] ]

mockTieringRecommendations ==
    << [ file_id |-> "FILE-021", file_name |-> "error_logs_archive_2025.log",
         current_tier |-> "COLD", recommended_tier |-> "ARCHIVE",
         recommended_cloud |-> "AWS S3 Glacier Deep",
         estimated_savings |-> 32450, migration_urgency |-> "7_DAYS",
         confidence |-> 95 ],
       [ file_id |-> "FILE-044", file_name |-> "legacy_database_dump.sql",
         current_tier |-> "ARCHIVE", recommended_tier |-> "ARCHIVE",
         recommended_cloud |-> "AWS S3 Glacier Deep",
         estimated_savings |-> 28975, migration_urgency |-> "30_DAYS",
         confidence |-> 92 ],
       [ file_id |-> "FILE-039", file_name |-> "security_camera_footage.mp4",
         current_tier |-> "COLD", recommended_tier |-> "ARCHIVE",
         recommended_cloud |-> "AWS S3 Glacier Instant",
         estimated_savings |-> 19840, migration_urgency |-> "30_DAYS",
         confidence |-> 88 ],
       [ file_id |-> "FILE-031", file_name |-> "email_archive_2025.pst",
         current_tier |-> "ARCHIVE", recommended_tier |-> "ARCHIVE",
         recommended_cloud |-> "AWS S3 Glacier Deep",
         estimated_savings |-> 15620, migration_urgency |-> "30_DAYS",
         confidence |-> 90 ],
       [ file_id |-> "FILE-009", file_name |-> "training_video_module1.mp4",
         current_tier |-> "WARM", recommended_tier |-> "COLD",
         recommended_cloud |-> "AWS S3 Glacier Instant",
         estimated_savings |-> 14280, migration_urgency |-> "7_DAYS",
         confidence |-> 85 ] >>

StrategyOption(name, score, cost, risk, replication, cloudTier, compression) ==
    [ name |-> name, score |-> score, monthly_cost |-> cost,
      risk_reduction |-> risk, replication_factor |-> replication,
      cloud_tier |-> cloudTier, compression_level |-> compression ]

\* The Balanced and Aggressive entries in each other's place.
mockStrategyOptionsMisordered ==
    << StrategyOption("Conservative", 85, 711875, 950, 3, "standard", "none"),
       StrategyOption("Aggressive", 38, 113900, 700, 1, "glacier_deep", "heavy"),
       StrategyOption("Balanced", 42, 284750, 850, 2, "intelligent_tiering",
                      "medium") >>

mockStrategyOptions ==
    << StrategyOption("Conservative", 85, 711875, 950, 3, "standard", "none"),
       StrategyOption("Balanced", 42, 284750, 850, 2, "intelligent_tiering",
                      "medium"),
       StrategyOption("Aggressive", 38, 113900, 700, 1, "glacier_deep", "heavy") >>

mockTieringSummary ==
    [ hot_to_warm |-> 3, warm_to_cold |-> 8, cold_to_archive |-> 10,
      critical_migrations |-> 2 ]

mockTieringPlan ==
    [ total_recommendations |-> 23,
      total_estimated_savings |-> 124530,
      recommendations |-> mockTieringRecommendations,
      strategy_options |-> mockStrategyOptions,
      summary |-> mockTieringSummary ]

CompressionRecommendation(fileId, current, compressed, ratio, algorithm, savings, time, roi, recommend) ==
    [ file_id |-> fileId, current_size |-> current,
      compressed_size |-> compressed, compression_ratio |-> ratio,
      algorithm |-> algorithm, monthly_savings |-> savings,
      compression_time |-> time, roi_score |-> roi, recommend |-> recommend ]

\* The two sizes of FILE-001 in each other's place.
mockCompressionRecommendationsSizesSwapped ==
    << CompressionRecommendation("FILE-021", 4000, 800, 80, "zstd-19", 62480,
                                 180, 452, TRUE),
       CompressionRecommendation("FILE-006", 800, 160, 80, "zstd-19", 12496,
                                 36, 428, TRUE),
       CompressionRecommendation("FILE-001", 14, 50, 72, "zstd-11", 7845,
                                 12, 285, TRUE),
       CompressionRecommendation("FILE-004", 150, 45, 70, "zstd-11", 6820,
                                 28, 183, TRUE),
       CompressionRecommendation("FILE-043", 5120, 1536, 70, "zstd-11", 24560,
                                 180, 158, TRUE) >>

\* The ratio of FILE-004 given as compressed / current (0.30 for 0.70).
mockCompressionRecommendationsRatioInverted ==
    << CompressionRecommendation("FILE-021", 4000, 800, 80, "zstd-19", 62480,
                                 180, 452, TRUE),
       CompressionRecommendation("FILE-006", 800, 160, 80, "zstd-19", 12496,
                                 36, 428, TRUE),
       CompressionRecommendation("FILE-001", 50, 14, 72, "zstd-11", 7845,
                                 12, 285, TRUE),
       CompressionRecommendation("FILE-004", 150, 45, 30, "zstd-11", 6820,
                                 28, 183, TRUE),
       CompressionRecommendation("FILE-043", 5120, 1536, 70, "zstd-11", 24560,
                                 180, 158, TRUE) >>

mockCompressionRecommendations ==
    << CompressionRecommendation("FILE-021", 4000, 800, 80, "zstd-19", 62480,
                                 180, 452, TRUE),
       CompressionRecommendation("FILE-006", 800, 160, 80, "zstd-19", 12496,
                                 36, 428, TRUE),
       CompressionRecommendation("FILE-001", 50, 14, 72, "zstd-11", 7845,
                                 12, 285, TRUE),
       CompressionRecommendation("FILE-004", 150, 45, 70, "zstd-11", 6820,
                                 28, 183, TRUE),
       CompressionRecommendation("FILE-043", 5120, 1536, 70, "zstd-11", 24560,
                                 180, 158, TRUE) >>

mockCompressionData ==
    [ total_recommendations |-> 12,
      total_monthly_savings |-> 284750,
      recommendations |-> mockCompressionRecommendations ]

CloudOption(provider, tier, price, retrieval, total, savings) ==
    [ provider |-> provider, tier |-> tier, monthly_cost_per_gb |-> price,
      retrieval_time |-> retrieval, total_cost |-> total,
      savings_percent |-> savings ]

\* The dearest option listed first.
mockCloudOptionsUnsorted ==
    << CloudOption("GCP", "Cloud Storage Archive", 10, "Instant", 123425, 567),
       CloudOption("AWS", "S3 Glacier Deep Archive", 8, "12-48 hours", 98740, 653),
       CloudOption("Azure", "Blob Archive", 8, "12 hours", 98740, 653) >>

\* The GCP saving kept from a comparison against another current spend.
mockCloudOptionsStaleSavings ==
    << CloudOption("AWS", "S3 Glacier Deep Archive", 8, "12-48 hours", 98740, 653),
       CloudOption("Azure", "Blob Archive", 8, "12 hours", 98740, 653),
       CloudOption("GCP", "Cloud Storage Archive", 10, "Instant", 123425, 600) >>

\* The GCP total with two digits transposed (1234.52 for 1234.25).
mockCloudOptionsMistypedTotal ==
    << CloudOption("AWS", "S3 Glacier Deep Archive", 8, "12-48 hours", 98740, 653),
       CloudOption("Azure", "Blob Archive", 8, "12 hours", 98740, 653),
       CloudOption("GCP", "Cloud Storage Archive", 10, "Instant", 123452, 567) >>

mockCloudOptions ==
    << CloudOption("AWS", "S3 Glacier Deep Archive", 8, "12-48 hours", 98740, 653),
       CloudOption("Azure", "Blob Archive", 8, "12 hours", 98740, 653),
       CloudOption("GCP", "Cloud Storage Archive", 10, "Instant", 123425, 567) >>

(***************************************************************************)
(* Inputs read from mock_data.json.                                        *)
(***************************************************************************)
\* predicted_failure_days: number | null.
null == -1

\* A field the JSON leaves out (the list is passed on "as any").
undefined == "undefined"

\* A drive as far as the dashboard's decisions read it; capacity and used in GB.
DriveTelemetry(i, score, type, used, reallocated, predicted) ==
    [ id |-> i, health_score |-> score, type |-> type,
      capacity |-> 1000, used |-> used,
      reallocated_sectors |-> reallocated, pending_sectors |-> 0,
      udma_crc_errors |-> 0, predicted_failure_days |-> predicted ]

\* A well-formed drive of the given health score, with no prediction.
Drive(i, score) == DriveTelemetry(i, score, "SATA HDD", 500, 0, null)

\* Health scores on and next to the band boundaries.
DriveScoreSamples == {39, 80}

DriveInputs ==
    { [ i \in 1..NumDrives |-> Drive(i, f[i]) ] :
        f \in [1..NumDrives -> DriveScoreSamples] }

Alert(i, sev, ack) ==
    [ id |-> i, drive_id |-> ((i - 1) % NumDrives) + 1, severity |-> sev,
      acknowledged |-> ack ]

AlertInputs ==
    UNION { { [ i \in 1..n |-> Alert(i, f[i][1], f[i][2]) ] :
                f \in [1..n -> Severities \X BOOLEAN] } : n \in 0..MaxAlerts }

(***************************************************************************)
(* DriveHealth.tsx: the gauge and the risk badge of a drive card.          *)
(***************************************************************************)
\* getColor with the first comparison strict.
getColorStrict(s) ==
    IF s > 80 THEN "#10b981"
    ELSE IF s >= 60 THEN "#3b82f6"
    ELSE IF s >= 40 THEN "#f59e0b"
    ELSE "#ef4444"

\* HealthGauge.getColor
getColor(s) ==
    IF s >= 80 THEN "#10b981"
    ELSE IF s >= 60 THEN "#3b82f6"
    ELSE IF s >= 40 THEN "#f59e0b"
    ELSE "#ef4444"

\* RiskBadge: styles[level].text
RiskBadgeText(level) ==
    CASE level = "LOW"      -> "#10b981"
      [] level = "MEDIUM"   -> "#3b82f6"
      [] level = "HIGH"     -> "#f59e0b"
      [] level = "CRITICAL" -> "#ef4444"

\* The risk bands whose badge colour the gauge draws a score in.
GaugeBands(s) == { l \in Range(RiskLevels) : RiskBadgeText(l) = getColor(s) }

Min(a, b) == IF a <= b THEN a ELSE b

\* SmartBar: Math.min(100, (value / max) * 100).  The colour thresholds are
\* whole numbers, so the whole part of the quotient decides them.
SmartBarPercentage(value, max) == Min(100, (value * 100) \div max)

\* SmartBar.getColor
SmartBarColor(p) ==
    IF p < 30 THEN "#10b981"
    ELSE IF p < 60 THEN "#3b82f6"
    ELSE IF p < 80 THEN "#f59e0b"
    ELSE "#ef4444"

SmartBar(label, value, max) ==
    [ label |-> label, value |-> value,
      percentage |-> SmartBarPercentage(value, max),
      color |-> SmartBarColor(SmartBarPercentage(value, max)) ]

\* DriveHealth: (drive.used / drive.capacity) * 100, the width of the
\* capacity bar.
utilizationPercent(drive) == (drive.used * 100) \div drive.capacity

\* getDriveIcon(drive.type): type.includes(...) throws a TypeError on a
\* type that is not a string.
getDriveIconThrows(type) == type = undefined

\* {drive.predicted_failure_days && ...}: null and 0 are falsy; React
\* renders nothing for null and the text 0 for the number 0.
FailureWarningShown(drive) ==
    drive.predicted_failure_days # null /\ drive.predicted_failure_days # 0

\* {drive.health_score >= 80 && ...}
OperatingNormallyShown(drive) == drive.health_score >= 80

\* What a drive card puts on screen.
DriveHealth(drive) ==
    [ utilizationPercent |-> utilizationPercent(drive),
      gauge |-> getColor(drive.health_score),
      smartBars |->
        << SmartBar("Reallocated Sectors", drive.reallocated_sectors, 100),
           SmartBar("Pending Sectors", drive.pending_sectors, 50),
           SmartBar("UDMA CRC Errors", drive.udma_crc_errors, 30) >>,
      failureWarning |-> FailureWarningShown(drive),
      failureSlot |-> IF FailureWarningShown(drive) THEN "warning"
                      ELSE IF drive.predicted_failure_days = 0 THEN "0"
                      ELSE "nothing",
      failureUrgent |-> FailureWarningShown(drive)
                          /\ drive.predicted_failure_days <= 7,
      operatingNormally |-> OperatingNormallyShown(drive) ]

\* DriveHealthList: drives.map(...), one card per drive and nothing around a
\* card that would catch what it throws.
DriveHealthList(ds) == [ i \in DOMAIN ds |-> DriveHealth(ds[i]) ]

DriveHealthListThrows(ds) == \E i \in DOMAIN ds : getDriveIconThrows(ds[i].type)

(***************************************************************************)
(* ErrorBoundary.tsx.  The boundary stands where App is mounted; with no   *)
(* boundary React unmounts the whole tree on the same error, and no part   *)
(* of the app stays on screen either.                                      *)
(***************************************************************************)
ErrorBoundaryState == [ hasError |-> FALSE, error |-> "null", errorInfo |-> "null" ]

\* A boundary that records the error without raising the flag.
getDerivedStateFromErrorNoFlag(error) ==
    [ hasError |-> FALSE, error |-> error, errorInfo |-> "null" ]

getDerivedStateFromError(error) ==
    [ hasError |-> TRUE, error |-> error, errorInfo |-> "null" ]

\* this.setState({ error, errorInfo })
componentDidCatch(state, error, errorInfo) ==
    [ state EXCEPT !.error = error, !.errorInfo = errorInfo ]

\* ErrorBoundary.render: the fallback if hasError, else the children.
ErrorBoundaryRender(state) == IF state.hasError THEN "fallback" ELSE "children"

(***************************************************************************)
(* CostSavings.tsx, StatsOverview.tsx, TierDistribution.tsx: the shares    *)
(* and percentages.  A quotient is a number of tenths of a percent, or     *)
(* what JavaScript gives for a zero divisor.                               *)
(***************************************************************************)
Finite(tenths) == [ kind |-> "finite", tenths |-> tenths ]

\* x / 0 * 100: Infinity, -Infinity, or NaN for 0 / 0.
DivisionByZero(x) ==
    [ kind |-> IF x > 0 THEN "Infinity" ELSE IF x < 0 THEN "-Infinity" ELSE "NaN",
      tenths |-> 0 ]

\* (x / y * 100).toFixed(1) for x >= 0 and y > 0: the nearest tenth.
PercentToFixed1(x, y) == Finite((x * 2000 + y) \div (2 * y))

Max(a, b) == IF a >= b THEN a ELSE b

\* generateProjectionData: one point per month, index 0..11.  The costs of
\* a point are kept in twelfths of a hundredth (12 times the cost), in
\* which savings / 12 * index is exact: 12 * cost = 12 * currentCost -+
\* savings * index.
generateProjectionData(currentCost, savings) ==
    [ index \in 0..11 |->
        [ current |-> 12 * currentCost,
          conservative |-> Max(0, 12 * currentCost + savings.conservative * index),
          balanced |-> Max(0, 12 * currentCost - savings.balanced * index),
          aggressive |-> Max(0, 12 * currentCost - savings.aggressive * index) ] ]

\* CostProjectionChart: chartData
CostProjectionChart(data) ==
    generateProjectionData(data.current_monthly_cost, data.projected_savings)

\* SavingsSummary: one card per strategy; the division is made for every
\* card, and its result is on the card when isPositive.
SavingsSummary(data) ==
    [ name \in {"conservative", "balanced", "aggressive"} |->
        LET savings == data.projected_savings[name] IN
        [ isPositive |-> savings > 0,
          newCost |-> data.current_monthly_cost - savings,
          savingsPercent |->
              IF data.current_monthly_cost = 0
              THEN DivisionByZero(savings)
              ELSE PercentToFixed1(savings, data.current_monthly_cost) ] ]

\* HealthStatusCard: totalDrives > 0 ? (segment.count / totalDrives) * 100 : 0
HealthStatusCard(data) ==
    LET summary == data.health_summary
        totalDrives == summary.healthy_drives + summary.high_risk_drives
                         + summary.critical_drives
    IN  [ count \in { summary.healthy_drives, summary.high_risk_drives,
                      summary.critical_drives } |->
            IF totalDrives > 0 THEN Finite((count * 1000) \div totalDrives)
            ELSE Finite(0) ]

RECURSIVE SumOver(_, _, _)
\* Object.values(data).reduce((sum, t) => sum + t[field], 0)
SumOver(data, field, n) ==
    IF n = 0 THEN 0 ELSE SumOver(data, field, n - 1) + data[n][field]

\* TierStats: totalFiles > 0 ? (info.files / totalFiles * 100).toFixed(1) : '0'
TierStats(data) ==
    LET totalFiles == SumOver(data, "files", Len(data))
        totalSize == SumOver(data, "size_gb", Len(data))
    IN  [ i \in DOMAIN data |->
            [ tier |-> data[i].tier,
              percentFiles |-> IF totalFiles > 0
                               THEN PercentToFixed1(data[i].files, totalFiles)
                               ELSE Finite(0),
              percentSize |-> IF totalSize > 0
                              THEN PercentToFixed1(data[i].size_gb, totalSize)
                              ELSE Finite(0) ] ]

(***************************************************************************)
(* App.tsx, DrivesTab: the details panel of the selected drive.            *)
(***************************************************************************)
\* className of the Health Score figure
DetailsHealthClass(s) ==
    IF s >= 80 THEN "text-[#00ff88]"
    ELSE IF s >= 60 THEN "text-[#00d4ff]"
    ELSE IF s >= 40 THEN "text-[#ffb800]"
    ELSE "text-[#ff4757]"

\* className of the Risk Level figure
DetailsRiskClass(level) ==
    IF level = "LOW" THEN "text-[#00ff88]"
    ELSE IF level = "MEDIUM" THEN "text-[#00d4ff]"
    ELSE IF level = "HIGH" THEN "text-[#ffb800]"
    ELSE "text-[#ff4757]"

\* The risk bands whose colour the details panel shows a score in.
DetailsBands(s) ==
    { l \in Range(RiskLevels) : DetailsRiskClass(l) = DetailsHealthClass(s) }

(***************************************************************************)
(* AlertBanner.tsx and the props OverviewTab gives AlertList.              *)
(***************************************************************************)
\* <AlertList alerts={...} maxDisplay={3} />
OverviewMaxDisplay == 3

\* AlertList: maxDisplay = 5
AlertListMaxDisplay == 5

\* A slice that stops one short: alerts.slice(0, maxDisplay - 1).
displayedAlertsOneShort(als, maxDisplay) ==
    SubSeq(als, 1, IF Len(als) < maxDisplay - 1 THEN Len(als) ELSE maxDisplay - 1)

\* alerts.slice(0, maxDisplay)
displayedAlerts(als, maxDisplay) ==
    SubSeq(als, 1, IF Len(als) < maxDisplay THEN Len(als) ELSE maxDisplay)

\* AlertList: the 'All Systems Normal' card alone for an empty list, else
\* the banners and, when remainingCount > 0, the '+ k more alerts' line.
AlertList(als, maxDisplay) ==
    [ allSystemsNormal |-> Len(als) = 0,
      banners |-> IF Len(als) = 0 THEN << >> ELSE displayedAlerts(als, maxDisplay),
      remainingCount |-> Len(als) - maxDisplay,
      moreShown |-> Len(als) # 0 /\ Len(als) - maxDisplay > 0 ]

\* The alerts of a list with the given severity: alerts.filter(...).length
CountSeverity(als, sev) == Cardinality({ i \in DOMAIN als : als[i].severity = sev })

\* Counts with the last one taken as "everything else".
AlertStatsLowIsRest(als) ==
    [ critical |-> Cardinality({ i \in DOMAIN als : als[i].severity = "critical" }),
      high |-> Cardinality({ i \in DOMAIN als : als[i].severity = "high" }),
      medium |-> Cardinality({ i \in DOMAIN als : als[i].severity = "medium" }),
      low |-> Cardinality({ i \in DOMAIN als :
                             als[i].severity \notin {"critical", "high", "medium"} }),
      total |-> Len(als) ]

\* AlertStats: stats and total
AlertStats(als) ==
    [ critical |-> CountSeverity(als, "critical"),
      high |-> CountSeverity(als, "high"),
      medium |-> CountSeverity(als, "medium"),
      low |-> CountSeverity(als, "low"),
      total |-> Len(als) ]

\* OverviewTab passes no onAcknowledge: AlertBanner renders no Acknowledge
\* button and a click in the banner's action area reaches no handler.
OverviewOnAcknowledge(als, alertId) == als

\* A dismiss handler that filters the alert out of the list.
OverviewOnDismissRemoves(als, alertId) ==
    SelectSeq(als, LAMBDA a : a.id # alertId)

\* OverviewTab passes no onDismiss: no dismiss button, no handler.
OverviewOnDismiss(als, alertId) == als

(***************************************************************************)
(* App.tsx, CloudTab: the option cards.                                    *)
(***************************************************************************)
\* option.provider === 'AWS': the highlighted card carrying the BEST badge
BestBadge(options) == { i \in DOMAIN options : options[i].provider = "AWS" }

LifecycleRule(id, prefix, days, storageClass) ==
    [ ID |-> id, Prefix |-> prefix, Days |-> days, StorageClass |-> storageClass ]

\* The rules for GLACIER_IR and DEEP_ARCHIVE with their thresholds exchanged.
lifecyclePolicyThresholdsSwapped ==
    << LifecycleRule("GuardianDrive-HotToWarm", "", 30, "INTELLIGENT_TIERING"),
       LifecycleRule("GuardianDrive-WarmToCold", "archive/", 365, "GLACIER_IR"),
       LifecycleRule("GuardianDrive-ColdToDeep", "deep-archive/", 90,
                     "DEEP_ARCHIVE") >>

\* "Generated S3 Lifecycle Policy": the Rules of the JSON text, each with its
\* one transition.
lifecyclePolicy ==
    << LifecycleRule("GuardianDrive-HotToWarm", "", 30, "INTELLIGENT_TIERING"),
       LifecycleRule("GuardianDrive-WarmToCold", "archive/", 90, "GLACIER_IR"),
       LifecycleRule("GuardianDrive-ColdToDeep", "deep-archive/", 365,
                     "DEEP_ARCHIVE") >>

(***************************************************************************)
(* Navigation.tsx                                                          *)
(***************************************************************************)
navItems == <<"overview", "drives", "tiering", "compression", "cloud">>

\* A switch that lacks the case 'cloud'.
renderTabWithoutCloud(tab) ==
    CASE tab = "overview" -> "OverviewTab"
      [] tab = "drives" -> "DrivesTab"
      [] tab = "tiering" -> "TieringTab"
      [] tab = "compression" -> "CompressionTab"
      [] OTHER -> "OverviewTab"

\* App.renderTab: switch (activeTab), default: <OverviewTab />
renderTab(tab) ==
    CASE tab = "overview" -> "OverviewTab"
      [] tab = "drives" -> "DrivesTab"
      [] tab = "tiering" -> "TieringTab"
      [] tab = "compression" -> "CompressionTab"
      [] tab = "cloud" -> "CloudTab"
      [] OTHER -> "OverviewTab"

\* App.getTabTitle: the title of the top bar (the subtitle is left out).
getTabTitle(tab) ==
    CASE tab = "overview" -> "Dashboard Overview"
      [] tab = "drives" -> "Drive Health Monitor"
      [] tab = "tiering" -> "Intelligent Tiering"
      [] tab = "compression" -> "Compression Optimizer"
      [] tab = "cloud" -> "Cloud Orchestrator"
      [] OTHER -> "Dashboard Overview"

\* An App without the early return of the loading screen.
NavigationRenderedWhileLoading == mounted /\ ~boundary.hasError

\* App returns the loading screen alone while isLoading.
NavigationRendered == mounted /\ ~isLoading /\ ~boundary.hasError

\* renderTab(): the tab component on screen; the boundary renders its
\* fallback in place of its children once it has caught an error.
TabShown(tab) == mounted /\ ~isLoading /\ ~boundary.hasError /\ activeTab = tab

\* The cards of the drives tab.
DriveCardsShown ==
    IF TabShown("drives") THEN DriveHealthList(drives) ELSE << >>

\* Rendering the tab throws: only the drive cards read a field that may be
\* missing in a way that throws.
RenderThrows(tab) == tab = "drives" /\ DriveHealthListThrows(drives)

(***************************************************************************)
(* The states outside the dashboard at rest.                               *)
(***************************************************************************)
PlanIdle ==
    [ phase |-> "idle", scored |-> {}, classified |-> {}, escalated |-> {},
      aggregated |-> FALSE ]

\* A caller of acknowledgeAlert: idle, or with a call for an alert id that
\* is pending or done.
AckIdle == [ state |-> "idle", id |-> 0 ]

NoAcks == << AckIdle, AckIdle >>

\* mockData.cost_projections; money in hundredths, sizes in GB.
CostProjections(cost, conservative, balanced, aggressive, distribution) ==
    [ current_monthly_cost |-> cost,
      projected_savings |-> [ conservative |-> conservative,
                              balanced |-> balanced,
                              aggressive |-> aggressive ],
      tier_distribution |-> distribution ]

TierDistribution(hotFiles, hotSize, warmFiles, warmSize, coldFiles, coldSize, archiveFiles, archiveSize) ==
    << [ tier |-> "hot", files |-> hotFiles, size_gb |-> hotSize ],
       [ tier |-> "warm", files |-> warmFiles, size_gb |-> warmSize ],
       [ tier |-> "cold", files |-> coldFiles, size_gb |-> coldSize ],
       [ tier |-> "archive", files |-> archiveFiles, size_gb |-> archiveSize ] >>

DefaultCostProjections ==
    CostProjections(284750, 40000, 90000, 140000,
                    TierDistribution(10, 500, 15, 2000, 20, 6000, 10, 4000))

(***************************************************************************)
(* Initial states.                                                         *)
(***************************************************************************)
InitUI ==
    /\ isLoading = TRUE
    /\ activeTab = "overview"
    /\ isMobileMenuOpen = FALSE
    /\ selectedDrive = 0
    /\ boundary = ErrorBoundaryState
    /\ planRun = PlanIdle
    /\ ackCallers = NoAcks
    /\ mounted = TRUE
    /\ timer = "pending"

InitMock ==
    /\ dashboardSummary = mockDashboardSummary
    /\ tieringPlan = mockTieringPlan
    /\ compressionData = mockCompressionData
    /\ costProjections = DefaultCostProjections

Init ==
    /\ InitUI
    /\ InitMock
    /\ cloudOptions = mockCloudOptions
    /\ drives \in DriveInputs
    /\ alerts \in AlertInputs

(***************************************************************************)
(* Actions.                                                                *)
(***************************************************************************)
\* App, useEffect: the 1000 ms timer calls setIsLoading(false).
LoadingTimerFires ==
    /\ timer = "pending"
    /\ timer' = "fired"
    /\ isLoading' = FALSE
    /\ UNCHANGED <<activeTab, isMobileMenuOpen, selectedDrive, dataVars, alerts, boundary,
                   engineVars, mounted>>

\* The effect's cleanup, () => clearTimeout(timer): a pending timer is
\* cancelled, a timer that has fired is left as it is.
clearTimeout(t) == IF t = "pending" THEN "cleared" ELSE t

\* An unmount whose effect returned no cleanup.
UnmountNoCleanup ==
    /\ mounted
    /\ mounted' = FALSE
    /\ UNCHANGED <<uiVars, dataVars, alerts, boundary, engineVars, timer>>

\* App is unmounted (by whatever mounted it): React runs the cleanup of the
\* effect and drops the state of App, which nothing shows any more.
Unmount ==
    /\ mounted
    /\ mounted' = FALSE
    /\ timer' = clearTimeout(timer)
    /\ UNCHANGED <<uiVars, dataVars, alerts, boundary, engineVars>>

\* App is mounted again: a new instance, with the state of its useState
\* initialisers and a new timer set by the effect.
Mount ==
    /\ ~mounted
    /\ ~boundary.hasError
    /\ mounted' = TRUE
    /\ timer' = "pending"
    /\ isLoading' = TRUE
    /\ activeTab' = "overview"
    /\ isMobileMenuOpen' = FALSE
    /\ selectedDrive' = 0
    /\ UNCHANGED <<dataVars, alerts, boundary, engineVars>>

\* A tab change with the selection kept above DrivesTab.
setActiveTabKeepsSelection(tab) ==
    /\ activeTab' = tab
    /\ selectedDrive' = selectedDrive
    /\ boundary' = IF RenderThrows(tab)
                   THEN componentDidCatch(getDerivedStateFromError("TypeError"),
                                          "TypeError", "componentStack")
                   ELSE boundary
    /\ mounted' = ~RenderThrows(tab)
    /\ timer' = IF RenderThrows(tab) THEN clearTimeout(timer) ELSE timer

\* setActiveTab(tab) in App: another tab unmounts DrivesTab and with it the
\* selection; the same tab re-renders nothing.  The render that follows is
\* synchronous: an error thrown in it is caught by the boundary
\* (getDerivedStateFromError, then componentDidCatch) in the same step, and
\* the state of App is of no further consequence.
setActiveTab(tab) ==
    /\ activeTab' = tab
    /\ selectedDrive' = IF tab = activeTab THEN selectedDrive ELSE 0
    /\ boundary' = IF RenderThrows(tab)
                   THEN componentDidCatch(getDerivedStateFromError("TypeError"),
                                          "TypeError", "componentStack")
                   ELSE boundary
    /\ mounted' = ~RenderThrows(tab)
    /\ timer' = IF RenderThrows(tab) THEN clearTimeout(timer) ELSE timer

\* Desktop navigation: onClick={() => onTabChange(item.id)}
DesktopNavClick(item) ==
    /\ NavigationRendered
    /\ setActiveTab(item)
    /\ UNCHANGED <<isLoading, isMobileMenuOpen, dataVars, alerts, engineVars>>

\* Mobile menu button: setIsMobileMenuOpen(!isMobileMenuOpen)
MobileMenuToggle ==
    /\ NavigationRendered
    /\ isMobileMenuOpen' = ~isMobileMenuOpen
    /\ UNCHANGED <<isLoading, activeTab, selectedDrive, dataVars, alerts, boundary,
                   engineVars, mountVars>>

\* A mobile menu item that only changes the tab.
MobileNavClickKeepsMenu(item) ==
    /\ NavigationRendered
    /\ isMobileMenuOpen
    /\ setActiveTab(item)
    /\ UNCHANGED <<isLoading, isMobileMenuOpen, dataVars, alerts, engineVars>>

\* Mobile menu item: onTabChange(item.id); setIsMobileMenuOpen(false)
MobileNavClick(item) ==
    /\ NavigationRendered
    /\ isMobileMenuOpen
    /\ setActiveTab(item)
    /\ isMobileMenuOpen' = FALSE
    /\ UNCHANGED <<isLoading, dataVars, alerts, engineVars>>

\* A click handler that writes to the drive it is given.
DriveCardClickWritesDrive(d) ==
    /\ TabShown("drives")
    /\ selectedDrive' = drives[d].id
    /\ drives' = [drives EXCEPT ![d].health_score = 0]
    /\ UNCHANGED <<isLoading, activeTab, isMobileMenuOpen, dashboardSummary,
                   tieringPlan, compressionData, cloudOptions, alerts,
                   costProjections, boundary, engineVars, mountVars>>

\* Drive card: onClick={() => onClick?.(drive)} with onClick = setSelectedDrive
DriveCardClick(d) ==
    /\ TabShown("drives")
    /\ selectedDrive' = drives[d].id
    /\ UNCHANGED <<isLoading, activeTab, isMobileMenuOpen, dataVars, alerts,
                   boundary, engineVars, mountVars>>

\* Details panel, Close: setSelectedDrive(null)
DriveDetailsClose ==
    /\ TabShown("drives")
    /\ selectedDrive # 0
    /\ selectedDrive' = 0
    /\ UNCHANGED <<isLoading, activeTab, isMobileMenuOpen, dataVars, alerts,
                   boundary, engineVars, mountVars>>

\* DrivesTab: {selectedDrive && (...)}, the details panel.
DetailsPanelShown == TabShown("drives") /\ selectedDrive # 0

\* The alert banners on screen: the Active Alerts section of OverviewTab.
BannersShown ==
    IF TabShown("overview") /\ dashboardSummary.alerts.total > 0
    THEN DOMAIN displayedAlerts(alerts, OverviewMaxDisplay)
    ELSE {}

\* A click where AlertBanner puts the Acknowledge button.
AlertAcknowledgeClick(i) ==
    /\ i \in BannersShown
    /\ alerts' = OverviewOnAcknowledge(alerts, alerts[i].id)
    /\ UNCHANGED <<uiVars, dataVars, boundary, engineVars, mountVars>>

\* A click where AlertBanner puts the dismiss button.
AlertDismissClick(i) ==
    /\ i \in BannersShown
    /\ alerts' = OverviewOnDismiss(alerts, alerts[i].id)
    /\ UNCHANGED <<uiVars, dataVars, boundary, engineVars, mountVars>>

Next ==
    \/ LoadingTimerFires
    \/ Unmount
    \/ Mount
    \/ \E item \in Range(navItems) : DesktopNavClick(item)
    \/ MobileMenuToggle
    \/ \E item \in Range(navItems) : MobileNavClick(item)
    \/ \E d \in DOMAIN drives : DriveCardClick(d)
    \/ DriveDetailsClose
    \/ \E i \in DOMAIN alerts : AlertAcknowledgeClick(i)
    \/ \E i \in DOMAIN alerts : AlertDismissClick(i)

Spec == Init /\ [][Next]_vars

\* The same with the timer of a mounted App firing in the end: setTimeout
\* runs its callback unless the timer is cleared.
SpecLoading == Init /\ [][Next]_vars /\ WF_vars(LoadingTimerFires)

(***************************************************************************)
(* The drive cards over every pair of health scores.                       *)
(***************************************************************************)
OneAlert == << Alert(1, "critical", FALSE) >>

ScorePairInputs ==
    { << Drive(1, a), Drive(2, b) >> : a \in 0..MaxScore, b \in 0..MaxScore }

InitHealth ==
    /\ InitUI
    /\ InitMock
    /\ cloudOptions = mockCloudOptions
    /\ drives \in ScorePairInputs
    /\ alerts = OneAlert

SpecHealth == InitHealth /\ [][Next]_vars

(***************************************************************************)
(* The cloud tab over option lists other than the mock one: lists as the   *)
(* comparison emits them, one option per provider (the React key),         *)
(* ascending by total_cost.                                                *)
(***************************************************************************)
Providers == {"AWS", "Azure", "GCP"}

\* Price per GB in hundredths; the mock list has 8 and 10.
CloudPriceSamples == {6, 8, 10}

\* An option of the mock comparison (12342.5 GB, 2847.50 a month now) at
\* another price: 8 and 10 give the mock list's own figures.
CloudOptionAt(provider, price) ==
    CloudOption(provider, "Archive", price, "12 hours", (price * 24685) \div 2,
                CASE price = 6 -> 740 [] price = 8 -> 653 [] price = 10 -> 567)

IsSortedByCost(options) ==
    \A i \in DOMAIN options : \A j \in DOMAIN options :
        i < j => options[i].total_cost <= options[j].total_cost

CloudOptionInputs ==
    UNION { { opts \in [1..n -> { CloudOptionAt(p, c) :
                                    p \in Providers, c \in CloudPriceSamples }] :
                /\ \A i \in 1..n : \A j \in 1..n :
                       i # j => opts[i].provider # opts[j].provider
                /\ IsSortedByCost(opts) } :
            n \in 1..Cardinality(Providers) }

DefaultDrives == [ i \in 1..NumDrives |-> Drive(i, 80) ]

InitCloud ==
    /\ InitUI
    /\ InitMock
    /\ cloudOptions \in CloudOptionInputs
    /\ drives = DefaultDrives
    /\ alerts = OneAlert

SpecCloud == InitCloud /\ [][Next]_vars

(***************************************************************************)
(* The drives tab over drive records as the JSON may hold them: health     *)
(* scores on both sides of 80, with and without a prediction, a used space *)
(* below and above the capacity, a counter below and above 0, a type       *)
(* present and missing.                                                    *)
(***************************************************************************)
TelemetrySamples(i) ==
    { DriveTelemetry(i, score, type, used, reallocated, predicted) :
        score \in {39, 85}, type \in {"NVMe SSD", undefined},
        used \in {500, 1500}, reallocated \in {-1, 5},
        predicted \in {null, 0, 30} }

TelemetryInputs ==
    { << a, b >> : a \in TelemetrySamples(1), b \in TelemetrySamples(2) }

InitTelemetry ==
    /\ InitUI
    /\ InitMock
    /\ cloudOptions = mockCloudOptions
    /\ drives \in TelemetryInputs
    /\ alerts = OneAlert

SpecTelemetry == InitTelemetry /\ [][Next]_vars

(***************************************************************************)
(* The overview and the tiering tab over cost projections as the JSON may  *)
(* hold them: a monthly cost of 0 or more, savings of 0 or more, tiers     *)
(* with and without files.                                                 *)
(***************************************************************************)
CostProjectionInputs ==
    { CostProjections(cost, conservative, balanced, aggressive, distribution) :
        cost \in {0, 284750}, conservative \in {0, 40000},
        balanced \in {0, 90000}, aggressive \in {0, 140000},
        distribution \in { TierDistribution(10, 500, 15, 2000, 20, 6000, 10, 4000),
                           TierDistribution(0, 0, 0, 0, 0, 0, 0, 0) } }

InitCost ==
    /\ InitUI
    /\ dashboardSummary = mockDashboardSummary
    /\ tieringPlan = mockTieringPlan
    /\ compressionData = mockCompressionData
    /\ costProjections \in CostProjectionInputs
    /\ cloudOptions = mockCloudOptions
    /\ drives = DefaultDrives
    /\ alerts = OneAlert

SpecCost == InitCost /\ [][Next]_vars

(***************************************************************************)
(* Acknowledgment.  Two clients show the alert list with the Acknowledge   *)
(* button wired to acknowledgeAlert(id) of the engine; a click sends the   *)
(* call, the engine applies the calls one at a time, in any order.         *)
(***************************************************************************)
\* A handler that flips the flag.
acknowledgeAlertToggles(als, alertId) ==
    [ i \in DOMAIN als |->
        IF als[i].id = alertId
        THEN [ als[i] EXCEPT !.acknowledged = ~als[i].acknowledged ]
        ELSE als[i] ]

\* acknowledgeAlert(id): marks the alert of that id acknowledged.
acknowledgeAlert(als, alertId) ==
    [ i \in DOMAIN als |->
        IF als[i].id = alertId
        THEN [ als[i] EXCEPT !.acknowledged = TRUE ]
        ELSE als[i] ]

\* AlertBanner: onClick={() => onAcknowledge(alert.id)} on a banner of
\* AlertList, which shows alerts.slice(0, maxDisplay).
AcknowledgeClick(c, i) ==
    /\ ackCallers[c].state = "idle"
    /\ i \in DOMAIN displayedAlerts(alerts, AlertListMaxDisplay)
    /\ ackCallers' = [ ackCallers EXCEPT ![c] =
                         [ state |-> "pending", id |-> alerts[i].id ] ]
    /\ UNCHANGED <<uiVars, dataVars, alerts, boundary, planRun, mountVars>>

\* The engine applies the call of a caller.
AcknowledgeApply(c) ==
    /\ ackCallers[c].state = "pending"
    /\ alerts' = acknowledgeAlert(alerts, ackCallers[c].id)
    /\ ackCallers' = [ ackCallers EXCEPT ![c].state = "done" ]
    /\ UNCHANGED <<uiVars, dataVars, boundary, planRun, mountVars>>

NextAck ==
    \/ \E c \in DOMAIN ackCallers : \E i \in DOMAIN alerts : AcknowledgeClick(c, i)
    \/ \E c \in DOMAIN ackCallers : AcknowledgeApply(c)

InitAck ==
    /\ InitUI
    /\ InitMock
    /\ cloudOptions = mockCloudOptions
    /\ drives = DefaultDrives
    /\ alerts \in AlertInputs

SpecAck == InitAck /\ [][NextAck]_vars

(***************************************************************************)
(* A planning run of the engine: the drives are scored and the files are   *)
(* classified in parallel, one evaluation per step and in any order        *)
(* (phase 1); after the join the urgency of each file is escalated from    *)
(* the risk of its drive and the fleet is aggregated (phase 2).            *)
(***************************************************************************)
PlanDrives == DOMAIN drives

PlanFiles == 1..NumFiles

PlanStarted ==
    [ phase |-> "phase1", scored |-> {}, classified |-> {}, escalated |-> {},
      aggregated |-> FALSE ]

ScoreDrive(d) ==
    /\ planRun.phase = "phase1"
    /\ d \notin planRun.scored
    /\ planRun' = [ planRun EXCEPT !.scored = @ \cup {d} ]
    /\ UNCHANGED <<uiVars, dataVars, alerts, boundary, ackCallers, mountVars>>

ClassifyFile(f) ==
    /\ planRun.phase = "phase1"
    /\ f \notin planRun.classified
    /\ planRun' = [ planRun EXCEPT !.classified = @ \cup {f} ]
    /\ UNCHANGED <<uiVars, dataVars, alerts, boundary, ackCallers, mountVars>>

\* A join that waits for the drives only.
PhaseBarrierDrivesOnly ==
    /\ planRun.phase = "phase1"
    /\ planRun.scored = PlanDrives
    /\ planRun' = [ planRun EXCEPT !.phase = "phase2" ]
    /\ UNCHANGED <<uiVars, dataVars, alerts, boundary, ackCallers, mountVars>>

\* The join: phase 2 begins when every evaluation of phase 1 is complete.
PhaseBarrier ==
    /\ planRun.phase = "phase1"
    /\ planRun.scored = PlanDrives
    /\ planRun.classified = PlanFiles
    /\ planRun' = [ planRun EXCEPT !.phase = "phase2" ]
    /\ UNCHANGED <<uiVars, dataVars, alerts, boundary, ackCallers, mountVars>>

EscalateUrgency(f) ==
    /\ planRun.phase = "phase2"
    /\ f \notin planRun.escalated
    /\ planRun' = [ planRun EXCEPT !.escalated = @ \cup {f} ]
    /\ UNCHANGED <<uiVars, dataVars, alerts, boundary, ackCallers, mountVars>>

AggregateFleet ==
    /\ planRun.phase = "phase2"
    /\ ~planRun.aggregated
    /\ planRun' = [ planRun EXCEPT !.aggregated = TRUE ]
    /\ UNCHANGED <<uiVars, dataVars, alerts, boundary, ackCallers, mountVars>>

NextPlan ==
    \/ \E d \in PlanDrives : ScoreDrive(d)
    \/ \E f \in PlanFiles : ClassifyFile(f)
    \/ PhaseBarrier
    \/ \E f \in PlanFiles : EscalateUrgency(f)
    \/ AggregateFleet

InitPlan ==
    /\ isLoading = TRUE
    /\ activeTab = "overview"
    /\ isMobileMenuOpen = FALSE
    /\ selectedDrive = 0
    /\ boundary = ErrorBoundaryState
    /\ planRun = PlanStarted
    /\ ackCallers = NoAcks
    /\ mounted = TRUE
    /\ timer = "pending"
    /\ InitMock
    /\ cloudOptions = mockCloudOptions
    /\ drives \in DriveInputs
    /\ alerts = OneAlert

SpecPlan == InitPlan /\ [][NextPlan]_vars

(***************************************************************************)
(* The overview over alert lists as the JSON may hold them: shorter and    *)
(* longer than what the list shows, with a severity outside the four (the  *)
(* items are passed on "as any"; AlertBanner falls back to the medium      *)
(* style for it).                                                          *)
(***************************************************************************)
AnySeverities == Severities \cup {"info"}

AlertListInputs ==
    UNION { { [ i \in 1..n |-> Alert(i, f[i], FALSE) ] :
                f \in [1..n -> AnySeverities] } : n \in 0..MaxListLen }

InitAlerts ==
    /\ InitUI
    /\ InitMock
    /\ cloudOptions = mockCloudOptions
    /\ drives = DefaultDrives
    /\ alerts \in AlertListInputs

SpecAlerts == InitAlerts /\ [][Next]_vars

(***************************************************************************)
(* Properties.                                                             *)
(***************************************************************************)
\* The band the step function of the specification gives a score.
StepBand(s) ==
    IF s >= 80 THEN "LOW"
    ELSE IF s >= 60 THEN "MEDIUM"
    ELSE IF s >= 40 THEN "HIGH"
    ELSE "CRITICAL"

\* Position of a band in LOW < MEDIUM < HIGH < CRITICAL.
RiskRank(level) == CHOOSE i \in DOMAIN RiskLevels : RiskLevels[i] = level

\* C1: on the drives tab every drive's gauge places its health score in
\* exactly one band, the band of the step function (>= 80 LOW, >= 60 MEDIUM,
\* >= 40 HIGH, else CRITICAL); of two drives the one with the lower score
\* never has the lower-risk band; and the details panel of the selected
\* drive places its score in the band its gauge does.
C1_BandStepFunction ==
    TabShown("drives") =>
        /\ \A d \in DOMAIN drives :
              GaugeBands(drives[d].health_score)
                  = { StepBand(drives[d].health_score) }
        /\ \A d \in DOMAIN drives : \A e \in DOMAIN drives :
              drives[d].health_score <= drives[e].health_score =>
                  \A bd \in GaugeBands(drives[d].health_score) :
                  \A be \in GaugeBands(drives[e].health_score) :
                      RiskRank(bd) >= RiskRank(be)
        /\ selectedDrive # 0 =>
              /\ Cardinality(DetailsBands(drives[selectedDrive].health_score)) = 1
              /\ DetailsBands(drives[selectedDrive].health_score)
                     = GaugeBands(drives[selectedDrive].health_score)

\* The drive on the LOW boundary is selected, next to one just below it.
C1_Witness ==
    /\ TabShown("drives")
    /\ selectedDrive = 2
    /\ drives[1].health_score = 79
    /\ drives[2].health_score = 80

\* C2: no step of the dashboard removes an alert or reorders the list, and
\* the only change a step makes to an alert is acknowledged going from
\* false to true.
C2_AlertsOnlyAcknowledged ==
    [][ /\ Len(alerts') = Len(alerts)
        /\ \A i \in DOMAIN alerts :
              \/ alerts'[i] = alerts[i]
              \/ /\ alerts[i].acknowledged = FALSE
                 /\ alerts'[i] = [alerts[i] EXCEPT !.acknowledged = TRUE] ]_vars

\* Unacknowledged alerts are on screen after the menu was used to come back
\* to the overview.
C2_Witness ==
    /\ TabShown("overview")
    /\ isMobileMenuOpen
    /\ Len(alerts) >= 2
    /\ BannersShown = DOMAIN alerts
    /\ \A i \in DOMAIN alerts : ~alerts[i].acknowledged

\* C3: the summary, the tiering plan, the compression plan and the cloud
\* options are the mock responses in every state, and no step changes them
\* or the drive records.
C3_DataNeverMutated ==
    /\ [](/\ dashboardSummary = mockDashboardSummary
          /\ tieringPlan = mockTieringPlan
          /\ compressionData = mockCompressionData
          /\ cloudOptions = mockCloudOptions)
    /\ [][UNCHANGED dataVars]_vars

\* A drive is selected with the mobile menu open: loading completed, the
\* tab changed, the menu toggled and a drive card was clicked.
C3_Witness ==
    /\ TabShown("drives")
    /\ isMobileMenuOpen
    /\ selectedDrive = NumDrives
    /\ tieringPlan = mockTieringPlan
    /\ drives \in DriveInputs

\* Recommendations of a plan moving a file from one tier to another.
TierMoves(plan, from, to) ==
    Cardinality({ i \in DOMAIN plan.recommendations :
                    /\ plan.recommendations[i].current_tier = from
                    /\ plan.recommendations[i].recommended_tier = to })

\* C4: in the tiering plan on screen hot_to_warm + warm_to_cold +
\* cold_to_archive equals total_recommendations, and each tally is the
\* number of recommendations of the list making that move.
C4_TalliesAgree ==
    TabShown("tiering") =>
        /\ tieringPlan.summary.hot_to_warm + tieringPlan.summary.warm_to_cold
               + tieringPlan.summary.cold_to_archive
             = tieringPlan.total_recommendations
        /\ tieringPlan.summary.hot_to_warm = TierMoves(tieringPlan, "HOT", "WARM")
        /\ tieringPlan.summary.warm_to_cold = TierMoves(tieringPlan, "WARM", "COLD")
        /\ tieringPlan.summary.cold_to_archive
             = TierMoves(tieringPlan, "COLD", "ARCHIVE")

\* C5: in the tiering plan on screen every recommendation has a recommended
\* tier other than the current tier, and no two recommendations are for the
\* same file.
C5_OnlyTierChanges ==
    TabShown("tiering") =>
        /\ \A i \in DOMAIN tieringPlan.recommendations :
              tieringPlan.recommendations[i].recommended_tier
                  # tieringPlan.recommendations[i].current_tier
        /\ \A i \in DOMAIN tieringPlan.recommendations :
           \A j \in DOMAIN tieringPlan.recommendations :
              i # j => tieringPlan.recommendations[i].file_id
                           # tieringPlan.recommendations[j].file_id

\* C6: the plan has exactly three strategy options, Conservative, Balanced,
\* Aggressive in that order, each later one with a lower monthly cost and a
\* lower risk reduction, each with a replication factor of at least 1.
C6_ThreeStrategies ==
    LET opts == tieringPlan.strategy_options IN
    /\ Len(opts) = 3
    /\ << opts[1].name, opts[2].name, opts[3].name >>
         = << "Conservative", "Balanced", "Aggressive" >>
    /\ \A i \in 1..2 :
          /\ opts[i].monthly_cost > opts[i + 1].monthly_cost
          /\ opts[i].risk_reduction > opts[i + 1].risk_reduction
    /\ \A i \in 1..3 : opts[i].replication_factor >= 1

\* The strategy comparison is on screen.
C6_Witness ==
    /\ TabShown("tiering")
    /\ Len(tieringPlan.strategy_options) = 3
    /\ tieringPlan.strategy_options[2].name = "Balanced"

\* C7: the cloud options are in ascending order of total_cost, so the first
\* one has the least total_cost of the list.
C7_CloudSortedByCost ==
    /\ cloudOptions # << >>
    /\ IsSortedByCost(cloudOptions)
    /\ \A j \in DOMAIN cloudOptions :
          cloudOptions[1].total_cost <= cloudOptions[j].total_cost

\* The option cards are on screen, with options of different cost.
C7_Witness ==
    /\ TabShown("cloud")
    /\ \E i \in DOMAIN cloudOptions : \E j \in DOMAIN cloudOptions :
          cloudOptions[i].total_cost < cloudOptions[j].total_cost

RoundedSavingsPercent(current, total) ==
    IF current - total > 0
    THEN (2000 * (current - total) + current) \div (2 * current)
    ELSE 0

CeilDiv(a, b) == (a + b - 1) \div b

\* The least current monthly cost each option's saving can come from; when
\* one cost fits every option, the greatest of these does.
CurrentCostCandidates(options) ==
    { IF options[i].savings_percent > 0
      THEN CeilDiv(2000 * options[i].total_cost,
                   2001 - 2 * options[i].savings_percent)
      ELSE 1 : i \in DOMAIN options }

\* C9 as stated: no savings_percent on the cloud tab is negative, and one
\* current monthly cost makes every savings_percent exactly
\* (current - total) / current * 100 (0 when that is not positive).
C9_SavingsExact ==
    TabShown("cloud") =>
        /\ \A i \in DOMAIN cloudOptions : cloudOptions[i].savings_percent >= 0
        /\ \A i \in DOMAIN cloudOptions : \A j \in DOMAIN cloudOptions :
              (cloudOptions[i].savings_percent > 0
                 /\ cloudOptions[j].savings_percent > 0) =>
                  cloudOptions[i].total_cost
                      * (1000 - cloudOptions[j].savings_percent)
                    = cloudOptions[j].total_cost
                        * (1000 - cloudOptions[i].savings_percent)

\* C9, amended: no savings_percent is negative, and one current monthly cost
\* makes every savings_percent equal to (current - total) / current * 100
\* floored at 0 and rounded to one decimal.
C9_SavingsRounded ==
    /\ \A i \in DOMAIN cloudOptions :
          /\ cloudOptions[i].savings_percent >= 0
          /\ cloudOptions[i].savings_percent < 1000
    /\ \E current \in CurrentCostCandidates(cloudOptions) :
          \A i \in DOMAIN cloudOptions :
              cloudOptions[i].savings_percent
                  = RoundedSavingsPercent(current, cloudOptions[i].total_cost)

\* The option cards are on screen, with options of different savings.
C9_Witness ==
    /\ TabShown("cloud")
    /\ isMobileMenuOpen
    /\ \E i \in DOMAIN cloudOptions : \E j \in DOMAIN cloudOptions :
          cloudOptions[i].savings_percent < cloudOptions[j].savings_percent

\* C10: total_cost is one corpus size times monthly_cost_per_gb: every
\* price is positive and total_cost / monthly_cost_per_gb is the same for
\* all options.
C10_SharedCorpusSize ==
    /\ \A i \in DOMAIN cloudOptions : cloudOptions[i].monthly_cost_per_gb > 0
    /\ \A i \in DOMAIN cloudOptions : \A j \in DOMAIN cloudOptions :
          cloudOptions[i].total_cost * cloudOptions[j].monthly_cost_per_gb
            = cloudOptions[j].total_cost * cloudOptions[i].monthly_cost_per_gb

\* The option cards are on screen, with options of different price per GB.
C10_Witness ==
    /\ TabShown("cloud")
    /\ ~isMobileMenuOpen
    /\ \E i \in DOMAIN cloudOptions : \E j \in DOMAIN cloudOptions :
          cloudOptions[i].monthly_cost_per_gb < cloudOptions[j].monthly_cost_per_gb

\* Storage classes from warmer to colder.
StorageClasses == <<"INTELLIGENT_TIERING", "GLACIER_IR", "DEEP_ARCHIVE">>

Coldness(storageClass) ==
    CHOOSE i \in DOMAIN StorageClasses : StorageClasses[i] = storageClass

\* C11: the lifecycle policy on the cloud tab lists its rules with strictly
\* increasing Days and a strictly colder storage class at each later rule:
\* INTELLIGENT_TIERING, then GLACIER_IR, then DEEP_ARCHIVE.
C11_LifecycleMonotone ==
    TabShown("cloud") =>
        /\ [ i \in DOMAIN lifecyclePolicy |-> lifecyclePolicy[i].StorageClass ]
             = StorageClasses
        /\ \A i \in DOMAIN lifecyclePolicy : \A j \in DOMAIN lifecyclePolicy :
              i < j =>
                  /\ lifecyclePolicy[i].Days < lifecyclePolicy[j].Days
                  /\ Coldness(lifecyclePolicy[i].StorageClass)
                       < Coldness(lifecyclePolicy[j].StorageClass)

\* The policy is on screen, reached through the mobile menu.
C11_Witness ==
    /\ TabShown("cloud")
    /\ Len(lifecyclePolicy) = 3
    /\ selectedDrive = 0
    /\ ~isMobileMenuOpen
    /\ Len(alerts) = 1

\* C12: no compression recommendation has a compressed_size above its
\* current_size.
C12_CompressedNotLarger ==
    \A i \in DOMAIN compressionData.recommendations :
        compressionData.recommendations[i].compressed_size
            <= compressionData.recommendations[i].current_size

\* The compression tab is on screen with its five recommendations.
C12_Witness ==
    /\ TabShown("compression")
    /\ Len(compressionData.recommendations) = 5
    /\ \E i \in DOMAIN compressionData.recommendations :
          compressionData.recommendations[i].compressed_size
              < compressionData.recommendations[i].current_size

\* C13: every compression_ratio is 1 - compressed_size / current_size
\* exactly (ratio in hundredths: ratio * current = 100 * (current -
\* compressed)), and so lies between 0 and 1.
C13_RatioExact ==
    \A i \in DOMAIN compressionData.recommendations :
        LET r == compressionData.recommendations[i] IN
        /\ r.current_size > 0
        /\ r.compression_ratio * r.current_size
             = 100 * (r.current_size - r.compressed_size)
        /\ r.compression_ratio >= 0
        /\ r.compression_ratio <= 100

\* The compression tab is on screen, with recommendations of different ratio.
C13_Witness ==
    /\ TabShown("compression")
    /\ isMobileMenuOpen
    /\ \E i \in DOMAIN compressionData.recommendations :
       \E j \in DOMAIN compressionData.recommendations :
          compressionData.recommendations[i].compression_ratio
              < compressionData.recommendations[j].compression_ratio

\* The recommendations of a plan with urgency IMMEDIATE.
ImmediateRecommendations(plan) ==
    { i \in DOMAIN plan.recommendations :
          plan.recommendations[i].migration_urgency = "IMMEDIATE" }

\* C17: a plan that reports critical_migrations > 0 holds exactly that many
\* recommendations with urgency IMMEDIATE (the recommendations for files on
\* CRITICAL drives).
C17_CriticalAreImmediate ==
    TabShown("tiering") =>
        (tieringPlan.summary.critical_migrations > 0 =>
            Cardinality(ImmediateRecommendations(tieringPlan))
                = tieringPlan.summary.critical_migrations)

\* A drive record the specification calls well formed.
WellFormed(drive) ==
    /\ drive.used >= 0
    /\ drive.used <= drive.capacity
    /\ drive.reallocated_sectors >= 0
    /\ drive.pending_sectors >= 0
    /\ drive.udma_crc_errors >= 0

\* C14: no capacity-utilization figure, SMART bar or health display is ever
\* produced from a drive record with used > capacity or a negative counter:
\* every drive card on screen is the card of a well-formed record.
C14_MalformedRejected ==
    \A i \in DOMAIN DriveCardsShown : WellFormed(drives[i])

\* C16: no drive card shows the "Predicted failure in N days" warning
\* together with the "Drive operating normally" notice.
C16_WarningExcludesNormal ==
    \A i \in DOMAIN DriveCardsShown :
        ~(DriveCardsShown[i].failureWarning
            /\ DriveCardsShown[i].operatingNormally)

\* C20: when one drive of the list fails to display, the cards of all the
\* other drives are still on the drives tab once the user has opened it.
C20_OthersStillReported ==
    (~isLoading /\ activeTab = "drives") =>
        \A i \in DOMAIN drives :
            ~getDriveIconThrows(drives[i].type) => i \in DOMAIN DriveCardsShown

\* A percentage that came out of a guarded division: a number, and 0 when
\* the divisor is 0.
Guarded(percent, divisor) ==
    /\ percent.kind = "finite"
    /\ divisor = 0 => percent.tenths = 0

\* C15: every percentage on screen is guarded against a zero divisor with a
\* fallback of 0: the savings percentages of the tiering tab against a
\* current_monthly_cost of 0, the shares of the overview against a total of
\* 0 drives, files or gigabytes.
C15_DivisionsGuarded ==
    /\ TabShown("tiering") =>
          \A name \in DOMAIN SavingsSummary(costProjections) :
              Guarded(SavingsSummary(costProjections)[name].savingsPercent,
                      costProjections.current_monthly_cost)
    /\ TabShown("overview") =>
          LET distribution == costProjections.tier_distribution
              summary == dashboardSummary.health_summary
          IN  /\ \A count \in DOMAIN HealthStatusCard(dashboardSummary) :
                    Guarded(HealthStatusCard(dashboardSummary)[count],
                            summary.healthy_drives + summary.high_risk_drives
                              + summary.critical_drives)
              /\ \A i \in DOMAIN TierStats(distribution) :
                    /\ Guarded(TierStats(distribution)[i].percentFiles,
                               SumOver(distribution, "files", Len(distribution)))
                    /\ Guarded(TierStats(distribution)[i].percentSize,
                               SumOver(distribution, "size_gb", Len(distribution)))

\* C19: a step that applies an acknowledgment of an alert id sets the
\* acknowledged flag of the alerts of that id and changes nothing else in
\* the list; applied to an alert already acknowledged (a second time, or by
\* a second caller) it leaves the list as it is.
C19_AcknowledgeIdempotent ==
    [][ \A c \in DOMAIN ackCallers :
            AcknowledgeApply(c) =>
                /\ DOMAIN alerts' = DOMAIN alerts
                /\ \A i \in DOMAIN alerts :
                      IF alerts[i].id = ackCallers[c].id
                      THEN /\ alerts'[i].acknowledged
                           /\ [ alerts'[i] EXCEPT !.acknowledged = FALSE ]
                                = [ alerts[i] EXCEPT !.acknowledged = FALSE ]
                           /\ alerts[i].acknowledged => alerts'[i] = alerts[i]
                      ELSE alerts'[i] = alerts[i] ]_vars

\* Both callers have acknowledged the same alert, and another alert is
\* still unacknowledged.
C19_Witness ==
    /\ ackCallers[1].state = "done"
    /\ ackCallers[2].state = "done"
    /\ ackCallers[1].id = ackCallers[2].id
    /\ \E i \in DOMAIN alerts :
          alerts[i].id = ackCallers[1].id /\ alerts[i].acknowledged
    /\ \E i \in DOMAIN alerts :
          alerts[i].id # ackCallers[1].id /\ ~alerts[i].acknowledged

\* C18: no urgency escalation and no fleet aggregation has happened
\* unless every drive has been scored and every file classified.
C18_TwoPhaseBarrier ==
    (planRun.escalated # {} \/ planRun.aggregated) =>
        /\ planRun.scored = PlanDrives
        /\ planRun.classified = PlanFiles

\* The run is in phase 2 with an escalation and the aggregation done, some
\* file not yet escalated.
C18_Witness ==
    /\ planRun.phase = "phase2"
    /\ planRun.aggregated
    /\ planRun.escalated # {}
    /\ planRun.escalated # PlanFiles

\* The alerts of a list whose severity is none of the four.
OtherSeverity(als) == { i \in DOMAIN als : als[i].severity \notin Severities }

\* C21: in the alert summary the total is the number of alerts, and the
\* four per-severity counts sum to the total less the alerts whose severity
\* is none of critical, high, medium, low: to the total itself when every
\* alert has one of the four.
C21_SeverityCountsSum ==
    TabShown("overview") =>
        LET stats == AlertStats(alerts) IN
        /\ stats.total = Len(alerts)
        /\ stats.critical + stats.high + stats.medium + stats.low
             = stats.total - Cardinality(OtherSeverity(alerts))
        /\ OtherSeverity(alerts) = {} =>
              stats.critical + stats.high + stats.medium + stats.low = stats.total

\* The summary is on screen for a list with alerts of the four severities
\* and alerts of another one.
C21_Witness ==
    /\ TabShown("overview")
    /\ OtherSeverity(alerts) # {}
    /\ OtherSeverity(alerts) # DOMAIN alerts
    /\ AlertStats(alerts).total > AlertStats(alerts).critical
    /\ AlertStats(alerts).critical > 0

\* C28: for every positive maxDisplay m, the alert list of n alerts shows
\* min(n, m) banners, the first alerts in list order; the '+ k more alerts'
\* line is shown exactly when n > m, with k = n - m; for n = 0 it shows the
\* 'All Systems Normal' card and no banner.
C28_AlertListCounts ==
    TabShown("overview") =>
        \A m \in 1..(MaxListLen + 1) :
            LET list == AlertList(alerts, m)
                n == Len(alerts)
            IN  /\ Len(list.banners) = Min(n, m)
                /\ \A i \in DOMAIN list.banners : list.banners[i] = alerts[i]
                /\ list.moreShown <=> n > m
                /\ list.moreShown =>
                      /\ list.remainingCount = n - m
                      /\ Len(list.banners) + list.remainingCount = n
                /\ list.allSystemsNormal <=> n = 0
                /\ n = 0 => list.banners = << >>

\* The overview shows three banners of a longer list and the '+ 1 more
\* alerts' line.
C28_Witness ==
    /\ TabShown("overview")
    /\ Len(alerts) > OverviewMaxDisplay
    /\ AlertList(alerts, OverviewMaxDisplay).moreShown
    /\ AlertList(alerts, OverviewMaxDisplay).remainingCount = 1
    /\ Len(AlertList(alerts, OverviewMaxDisplay).banners) = OverviewMaxDisplay

\* C22: the app starts loading; while it loads neither the navigation nor
\* any tab is rendered; in a mounted app isLoading never goes from false
\* back to true; and if the app stays mounted, isLoading becomes false.
C22_LoadingEndsOnce ==
    /\ (mounted = TRUE /\ isLoading = TRUE)
    /\ [](mounted /\ isLoading =>
            /\ ~NavigationRendered
            /\ \A tab \in Range(navItems) : ~TabShown(tab))
    /\ [][(mounted /\ mounted' /\ ~isLoading) => ~isLoading']_vars
    /\ ([]mounted => <>(~isLoading))

\* Loading is over and the user has moved on: a drive is selected on the
\* drives tab.
C22_Witness ==
    /\ mounted
    /\ ~isLoading
    /\ timer = "fired"
    /\ TabShown("drives")
    /\ selectedDrive # 0

\* C23: an unmounted app has no pending timer; the timer callback runs only
\* in a mounted app and isLoading does not change while the app is
\* unmounted; a timer that has fired or was cleared is not pending again
\* before the next mount, so the callback runs at most once per mount.
C23_CleanupCancelsTimer ==
    /\ [](~mounted => timer # "pending")
    /\ [][LoadingTimerFires => mounted]_vars
    /\ [][(~mounted /\ ~mounted') => isLoading' = isLoading]_vars
    /\ [][(timer # "pending" /\ ~(~mounted /\ mounted')) => timer' # "pending"]_vars

\* The app was unmounted while loading: the timer is cleared and isLoading
\* is still true.
C23_Witness ==
    /\ ~mounted
    /\ timer = "cleared"
    /\ isLoading
    /\ ~boundary.hasError

\* Values of activeTab: the navigation items and one that is none of them.
TabValues == Range(navItems) \cup {"settings"}

\* C24: activeTab is always the id of a navigation item; renderTab and
\* getTabTitle are defined for every value and choose the same tab (two
\* values get the same component exactly when they get the same title);
\* a value that is no item gets the Overview tab and 'Dashboard Overview'.
C24_ActiveTabIsNavItem ==
    /\ activeTab \in Range(navItems)
    /\ \A v \in TabValues : \A w \in TabValues :
          renderTab(v) = renderTab(w) <=> getTabTitle(v) = getTabTitle(w)
    /\ \A v \in Range(navItems) : \A w \in Range(navItems) :
          v # w => renderTab(v) # renderTab(w)
    /\ \A v \in TabValues \ Range(navItems) :
          /\ renderTab(v) = "OverviewTab"
          /\ renderTab(v) = renderTab("overview")
          /\ getTabTitle(v) = "Dashboard Overview"

\* The last navigation item is active, with its own component and title.
C24_Witness ==
    /\ TabShown("cloud")
    /\ renderTab(activeTab) = "CloudTab"
    /\ getTabTitle(activeTab) = "Cloud Orchestrator"
    /\ isMobileMenuOpen

\* C25: the mobile menu is closed at every mount; the menu button flips
\* the flag and leaves the active tab; an item of the mobile menu sets the
\* active tab to that item and closes the menu in the same step; an item
\* of the desktop navigation sets the active tab and leaves the flag.
C25_MobileMenu ==
    /\ (isMobileMenuOpen = FALSE)
    /\ [][(~mounted /\ mounted') => ~isMobileMenuOpen']_vars
    /\ [][MobileMenuToggle =>
            /\ isMobileMenuOpen' = ~isMobileMenuOpen
            /\ activeTab' = activeTab]_vars
    /\ [][\A item \in Range(navItems) :
            MobileNavClick(item) =>
                /\ activeTab' = item
                /\ isMobileMenuOpen
                /\ ~isMobileMenuOpen']_vars
    /\ [][\A item \in Range(navItems) :
            DesktopNavClick(item) =>
                /\ activeTab' = item
                /\ isMobileMenuOpen' = isMobileMenuOpen]_vars

\* A tab other than the first is shown after loading, the menu closed.
C25_Witness ==
    /\ TabShown("compression")
    /\ ~isMobileMenuOpen
    /\ selectedDrive = 0
    /\ timer = "fired"

\* The ids of the drives; 0, the id of none, stands for no selection.
DriveIds == { drives[d].id : d \in DOMAIN drives }

\* C26: the selection is one drive of the list or none; a click on a drive
\* card selects that drive, Close selects none; the details panel is on
\* screen exactly when the drives tab is and a drive is selected; no drive
\* is selected on any other tab, and none right after the drives tab is
\* entered from another tab.
C26_SingleSelection ==
    /\ [](selectedDrive \in DriveIds \cup {0})
    /\ [](DetailsPanelShown <=> (TabShown("drives") /\ selectedDrive \in DriveIds))
    /\ [](activeTab # "drives" => selectedDrive = 0)
    /\ [][\A d \in DOMAIN drives :
            DriveCardClick(d) => selectedDrive' = drives[d].id]_vars
    /\ [][DriveDetailsClose => selectedDrive' = 0 /\ ~DetailsPanelShown']_vars
    /\ [][activeTab' # activeTab => selectedDrive' = 0]_vars

\* The second drive is selected and its details are shown.
C26_Witness ==
    /\ DetailsPanelShown
    /\ Len(drives) > 1
    /\ selectedDrive = drives[2].id
    /\ selectedDrive # drives[1].id

\* C27: hasError starts false; a throw in a child makes
\* getDerivedStateFromError set hasError with the error and a null
\* errorInfo, and componentDidCatch record the same error with its
\* errorInfo; once hasError is set the state of the boundary never changes
\* again, the fallback is rendered and no part of the app is.
C27_BoundaryLatches ==
    /\ (boundary.hasError = FALSE)
    /\ getDerivedStateFromError("TypeError")
         = [ hasError |-> TRUE, error |-> "TypeError", errorInfo |-> "null" ]
    /\ [][\A item \in Range(navItems) :
            ((DesktopNavClick(item) \/ MobileNavClick(item)) /\ RenderThrows(item)) =>
                boundary' = [ hasError |-> TRUE, error |-> "TypeError",
                              errorInfo |-> "componentStack" ]]_vars
    /\ [][boundary.hasError => boundary' = boundary]_vars
    /\ [](boundary.hasError =>
            /\ ErrorBoundaryRender(boundary) = "fallback"
            /\ ~NavigationRendered
            /\ \A tab \in Range(navItems) : ~TabShown(tab))
    /\ [](~boundary.hasError => ErrorBoundaryRender(boundary) = "children")

\* The boundary has caught the error of a drive card and shows the
\* fallback with the component stack.
C27_Witness ==
    /\ boundary.hasError
    /\ boundary.error = "TypeError"
    /\ boundary.errorInfo = "componentStack"
    /\ activeTab = "drives"
    /\ \E d \in DOMAIN drives : ~getDriveIconThrows(drives[d].type)

\* C29: for every strategy and every month index i of the chart, the
\* charted cost is max(0, current - savings / 12 * i), so it is never
\* negative, is the current cost at index 0, and never exceeds the current
\* cost when the saving is positive (costs in twelfths of a hundredth).
C29_ChartFollowsSavings ==
    TabShown("overview") =>
        LET chart == CostProjectionChart(costProjections)
            current == costProjections.current_monthly_cost
        IN  \A name \in {"conservative", "balanced", "aggressive"} :
            \A i \in DOMAIN chart :
                LET savings == costProjections.projected_savings[name] IN
                /\ chart[i][name] = Max(0, 12 * current - savings * i)
                /\ chart[i][name] >= 0
                /\ i = 0 => chart[i][name] = 12 * current
                /\ savings > 0 => chart[i][name] <= 12 * current
                /\ SavingsSummary(costProjections)[name].isPositive =>
                      chart[i][name] <= chart[i].current

\* C30: every drive card on screen shows the failure warning exactly when
\* predicted_failure_days is not null, with the urgent styling for 7 days
\* or fewer (0 days included), and shows nothing in its place for null.
C30_WarningIffPredicted ==
    \A i \in DOMAIN DriveCardsShown :
        LET card == DriveCardsShown[i]
            days == drives[i].predicted_failure_days
        IN  /\ card.failureWarning <=> days # null
            /\ (days # null /\ days <= 7) => card.failureUrgent
            /\ days = null => card.failureSlot = "nothing"

====
